---- MODULE Spec2Model ----
(***************************************************************************)
(* A model of WeakPool (src/src/WeakPool.ts, the class at lines 261-477)   *)
(* together with the parts of its host it talks to: the caller's           *)
(* references, the garbage collector, the FinalizationRegistry and the     *)
(* timer queue.  Every pool operation runs to completion (JavaScript is    *)
(* single threaded), so each method, callback and host step is one action. *)
(***************************************************************************)
EXTENDS Integers, Sequences, FiniteSets, TLC

\* ------------------------------------------------------------------ bounds
\* Number of object identities the factory and the caller can ever create.
MaxObjs == 2

\* Largest capacity returned by the fixed-capacity scaling algorithms.
MaxFixedCap == 2

\* Number of releases of an object that is not active (never acquired, or
\* released already) a caller makes in one run.
MaxForeignReleases == 1

\* Depth at which the host gives up on a runaway recursion (RangeError).
MaxCallStack == 3

\* Largest numActiveObjects argument of a direct call of the default scaling
\* algorithm.
MaxNumActiveArg == 100

\* Largest curMaxStrongPoolSize argument of a direct call of the default
\* scaling algorithm.
MaxCurMaxArg == 60

\* Largest value of each of the three further arguments of a direct call.
MaxOtherArg == 1

\* ------------------------------------------------------- program constants
DEFAULT_MAX_STRONG_POOL_SIZE == 5

\* Number.MAX_SAFE_INTEGER, the value at which the two reclamation counters
\* stop counting.  It is 2^53 - 1 in the program; the model uses the largest
\* integer of its own arithmetic, 2^31 - 1, in the same role.
MAX_SAFE_INTEGER == 2147483647

\* ------------------------------------------------------------------- state
VARIABLES
    strongPool,               \* #strongPool: Obj[]                 (a stack)
    weakPool,                 \* #weakPool: Set<WeakRef>  (insertion ordered)
    activeObjects,            \* #activeObjects: Set<WeakRef>
    poolSizeUpdateScheduled,  \* #poolSizeUpdateScheduled
    numGC,                    \* #numGC
    numActiveGC,              \* #numActiveGC
    maxStrongPoolSize,        \* #maxStrongPoolSize
    poolScalingAlgorithm,     \* #poolScalingAlgorithm (constructor argument)
    timers,                   \* host: queued setTimeout(#updatePoolSize) tasks
    registered,               \* host: registry entries / callbacks owed, per object
    collected,                \* host: objects the collector has reclaimed
    held,                     \* caller: objects the caller still references
    nextObj,                  \* next fresh object identity
    lastOp,                   \* history: the operation that ran last
    acquired,                 \* history: objects acquired and not released since
    foreignReleases,          \* history: releases so far of objects that were not active
    script                    \* history: is the run so far acquire^k release^j ?

vars == <<strongPool, weakPool, activeObjects, poolSizeUpdateScheduled, numGC,
          numActiveGC, maxStrongPoolSize, poolScalingAlgorithm, timers,
          registered, collected, held, nextObj, lastOp, acquired,
          foreignReleases, script>>

Objs == 1..MaxObjs

\* `undefined`: what Array.pop gives on an empty array and deref on a dead ref.
undefined == 0

\* ------------------------------------------------------------ weak handles
\* weak-ref-cache: one WeakRef per object, the same one on every call.
getWeakRef(obj) == [target |-> obj]

\* WeakRef.deref(): the object, or undefined once it has been reclaimed.
deref(weakObj) == IF weakObj.target \in collected THEN undefined ELSE weakObj.target

Range(s) == {s[i] : i \in 1..Len(s)}

\* Set.add on the insertion-ordered weak pool: a member keeps its place.
SetAdd(s, x) == IF x \in Range(s) THEN s ELSE Append(s, x)

\* Set.delete on the insertion-ordered weak pool.
SetDelete(s, x) == SelectSeq(s, LAMBDA y : y # x)

\* ------------------------------------------------------ scaling algorithms
Max(a, b) == IF a >= b THEN a ELSE b

\* Math.ceil(n * 0.2); the double product n * 0.2 rounds to n/5 when 5 | n.
CeilFifth(n) == (n + 4) \div 5

\* Mutant: the two edges of the band (ratio exactly 0.1 and exactly 0.5)
\* count as outside the band.
defaultPoolScalingAlgoEdgesOutside(numActiveObjects, curMaxStrongPoolSize) ==
    IF numActiveObjects = 0 THEN DEFAULT_MAX_STRONG_POOL_SIZE
    ELSE IF \/ 10 * curMaxStrongPoolSize <= numActiveObjects
            \/ 2 * curMaxStrongPoolSize >= numActiveObjects
         THEN Max(CeilFifth(numActiveObjects), DEFAULT_MAX_STRONG_POOL_SIZE)
         ELSE Max(curMaxStrongPoolSize, DEFAULT_MAX_STRONG_POOL_SIZE)

\* Mutant: outside the band the algorithm returns the scaled active count
\* without the floor of the default capacity.
defaultPoolScalingAlgoNoFloor(numActiveObjects, curMaxStrongPoolSize) ==
    IF numActiveObjects = 0 THEN DEFAULT_MAX_STRONG_POOL_SIZE
    ELSE IF \/ 10 * curMaxStrongPoolSize < numActiveObjects
            \/ 2 * curMaxStrongPoolSize > numActiveObjects
         THEN CeilFifth(numActiveObjects)
         ELSE Max(curMaxStrongPoolSize, DEFAULT_MAX_STRONG_POOL_SIZE)

\* Mutant: with no active object the algorithm keeps the current capacity
\* instead of returning the default one.
defaultPoolScalingAlgoKeepsCur(numActiveObjects, curMaxStrongPoolSize) ==
    IF numActiveObjects = 0 THEN curMaxStrongPoolSize
    ELSE IF \/ 10 * curMaxStrongPoolSize < numActiveObjects
            \/ 2 * curMaxStrongPoolSize > numActiveObjects
         THEN Max(CeilFifth(numActiveObjects), DEFAULT_MAX_STRONG_POOL_SIZE)
         ELSE Max(curMaxStrongPoolSize, DEFAULT_MAX_STRONG_POOL_SIZE)

\* defaultPoolScalingAlgo: ratio = cur / numActive compared with 0.1 and 0.5.
defaultPoolScalingAlgo(numActiveObjects, curMaxStrongPoolSize) ==
    IF numActiveObjects = 0
    THEN DEFAULT_MAX_STRONG_POOL_SIZE
    ELSE IF \/ 10 * curMaxStrongPoolSize < numActiveObjects
            \/ 2 * curMaxStrongPoolSize > numActiveObjects
         THEN Max(CeilFifth(numActiveObjects), DEFAULT_MAX_STRONG_POOL_SIZE)
         ELSE Max(curMaxStrongPoolSize, DEFAULT_MAX_STRONG_POOL_SIZE)

\* The algorithms a pool can be constructed with: the default one, and custom
\* ones that return a fixed capacity or the number of active objects.
Algorithms ==
    {<<"default", 0>>, <<"active", 0>>} \cup {<<"fixed", c>> : c \in 0..MaxFixedCap}

\* this.#poolScalingAlgorithm(numActive, curMax, numStrong, numWeak, numGC)
PoolScaling(algo, nActive, curMax, nStrong, nWeak, nGC) ==
    CASE algo[1] = "default" -> defaultPoolScalingAlgo(nActive, curMax)
      [] algo[1] = "active"  -> nActive
      [] algo[1] = "fixed"   -> algo[2]

\* --------------------------------------------------------------- read-only
numActiveObjects == Cardinality(activeObjects)
curMaxStrongPoolSize == maxStrongPoolSize
numStrongPooledRefs == Len(strongPool)
numWeakPooledRefs == Len(weakPool)

isActive(obj) == getWeakRef(obj) \in activeObjects
isStrongPooled(obj) == obj \in Range(strongPool)
isWeakPooled(obj) == getWeakRef(obj) \in Range(weakPool)

\* ------------------------------------------------------------------- Init
\* What the history records of an operation: its name, the object it was
\* given or returned, whether it called the factory, whether it threw, and
\* the sizes of the two tiers when it was called.
Op(name, obj, created) ==
    [op |-> name, obj |-> obj, created |-> created, threw |-> FALSE,
     nStrong |-> Len(strongPool), nWeak |-> Len(weakPool)]

NoOp == [op |-> "new", obj |-> undefined, created |-> FALSE, threw |-> FALSE,
         nStrong |-> 0, nWeak |-> 0]

Init ==
    /\ poolScalingAlgorithm \in Algorithms
    /\ strongPool = <<>>
    /\ weakPool = <<>>
    /\ activeObjects = {}
    /\ poolSizeUpdateScheduled = FALSE
    /\ numGC = 0
    /\ numActiveGC = 0
    /\ maxStrongPoolSize = PoolScaling(poolScalingAlgorithm, 0, 0, 0, 0, 0)
    /\ timers = 0
    /\ registered = [o \in Objs |-> 0]
    /\ collected = {}
    /\ held = {}
    /\ nextObj = 1
    /\ lastOp = NoOp
    /\ acquired = {}
    /\ foreignReleases = 0
    /\ script = [phase |-> "acquiring", k |-> 0, j |-> 0]

OffScript == [phase |-> "other", k |-> 0, j |-> 0]

\* Mutant: the object is registered twice, so two callbacks are owed.
RegisterTwice(reg, obj) == [reg EXCEPT ![obj] = @ + 2]

\* Mutant: the registration is skipped.
RegisterSkipped(reg, obj) == reg

\* this.#objFinalizer.register(obj, weakObj): one more callback owed for obj.
Register(reg, obj) == [reg EXCEPT ![obj] = @ + 1]

\* ---------------------------------------------------------------- acquire
\* The weak-pool scan of acquire: handles are deleted as they are visited
\* and the scan stops at the first one that still resolves.
RECURSIVE FirstLive(_, _)
FirstLive(w, i) ==
    IF i > Len(w) THEN 0
    ELSE IF deref(w[i]) # undefined THEN i
    ELSE FirstLive(w, i + 1)

\* Mutant: the scan deletes the handle that resolves without pushing its
\* object.
AcquireBackfillStrongDrops(rest, w) == rest

\* The strong pool after the pop and the backfill push.
AcquireBackfillStrong(rest, w) ==
    IF FirstLive(w, 1) = 0 THEN rest ELSE Append(rest, deref(w[FirstLive(w, 1)]))

\* Mutant: the scan forgets to delete the handle it promotes.
AcquireBackfillWeakKeepsPromoted(w) ==
    IF FirstLive(w, 1) = 0 THEN <<>> ELSE SubSeq(w, FirstLive(w, 1), Len(w))

\* Mutant: the scan deletes only the handle it promotes and keeps the dead
\* ones it passed.
AcquireBackfillWeakKeepsDead(w) ==
    IF FirstLive(w, 1) = 0 THEN <<>>
    ELSE SubSeq(w, 1, FirstLive(w, 1) - 1) \o SubSeq(w, FirstLive(w, 1) + 1, Len(w))

\* The weak pool after the backfill scan.
AcquireBackfillWeak(w) ==
    IF FirstLive(w, 1) = 0 THEN <<>> ELSE SubSeq(w, FirstLive(w, 1) + 1, Len(w))

\* Does acquire take the branch that calls this.#create() ?
AcquireCreates == Len(strongPool) = 0

\* acquire(), branch obj !== undefined: reuse the top of the strong pool.
AcquireReuse ==
    /\ ~AcquireCreates
    /\ LET obj  == strongPool[Len(strongPool)]
           rest == SubSeq(strongPool, 1, Len(strongPool) - 1)
       IN /\ strongPool' = AcquireBackfillStrong(rest, weakPool)
          /\ weakPool' = AcquireBackfillWeak(weakPool)
          /\ activeObjects' = activeObjects \cup {getWeakRef(obj)}
          /\ held' = held \cup {obj}
          /\ acquired' = acquired \cup {obj}
          /\ lastOp' = Op("acquire", obj, FALSE)
    /\ script' = OffScript
    /\ UNCHANGED <<poolSizeUpdateScheduled, numGC, numActiveGC, maxStrongPoolSize,
                   poolScalingAlgorithm, timers, registered, collected, nextObj,
                   foreignReleases>>

\* acquire(), else branch: the factory makes a new object, which is registered
\* with the finalizer and added to the active set.
AcquireCreate ==
    /\ AcquireCreates
    /\ nextObj <= MaxObjs
    /\ LET obj == nextObj
       IN /\ registered' = Register(registered, obj)
          /\ activeObjects' = activeObjects \cup {getWeakRef(obj)}
          /\ held' = held \cup {obj}
          /\ acquired' = acquired \cup {obj}
          /\ lastOp' = Op("acquire", obj, TRUE)
    /\ nextObj' = nextObj + 1
    /\ script' = IF script.phase = "acquiring"
                 THEN [script EXCEPT !.k = @ + 1]
                 ELSE OffScript
    /\ UNCHANGED <<strongPool, weakPool, poolSizeUpdateScheduled, numGC, numActiveGC,
                   maxStrongPoolSize, poolScalingAlgorithm, timers, collected,
                   foreignReleases>>

Acquire == AcquireReuse \/ AcquireCreate

\* ---------------------------------------------------------------- release
\* Mutant: the capacity test is off by one.
ReleaseHasRoomOffByOne == Len(strongPool) <= maxStrongPoolSize

\* release(): does the object go to the strong pool ?
ReleaseHasRoom == Len(strongPool) < maxStrongPoolSize

\* Mutant: release puts the object at the bottom of the strong pool.
ReleaseStrongUnshift(obj) ==
    IF Len(strongPool) < maxStrongPoolSize THEN <<obj>> \o strongPool ELSE strongPool

\* release(): the strong pool after the capacity test.
ReleaseStrong(obj) == IF ReleaseHasRoom THEN Append(strongPool, obj) ELSE strongPool

\* Mutant: the handle is added to the weak pool on both branches.
ReleaseWeakAlways(obj) == SetAdd(weakPool, getWeakRef(obj))

\* release(): the weak pool after the capacity test.
ReleaseWeak(obj) == IF ReleaseHasRoom THEN weakPool ELSE SetAdd(weakPool, getWeakRef(obj))

\* Mutant: release leaves the handle in the active set.
ReleaseActiveKeeps(obj) == activeObjects

\* release(): the active set after activeObjects.delete(weakObj).
ReleaseActive(obj) == activeObjects \ {getWeakRef(obj)}

\* Mutant: the early return on an already scheduled update is missing.
ReleaseTimersNoDebounce == timers + 1

\* Mutant: the flag is set but setTimeout is never called.
ReleaseTimersNeverQueued == timers

\* release(): the timer queue after the debounce test; setTimeout is reached
\* only when no update is scheduled.
ReleaseTimers == IF poolSizeUpdateScheduled THEN timers ELSE timers + 1

\* release(obj), for any object the caller holds a reference to.
Release(obj) ==
    /\ obj \in held
    /\ isActive(obj) \/ foreignReleases < MaxForeignReleases
    /\ activeObjects' = ReleaseActive(obj)
    /\ registered' = IF isActive(obj) THEN registered ELSE Register(registered, obj)
    /\ strongPool' = ReleaseStrong(obj)
    /\ weakPool' = ReleaseWeak(obj)
    /\ timers' = ReleaseTimers
    /\ poolSizeUpdateScheduled' = TRUE
    /\ acquired' = acquired \ {obj}
    /\ foreignReleases' = IF isActive(obj) THEN foreignReleases ELSE foreignReleases + 1
    /\ script' = IF script.phase \in {"acquiring", "releasing"} /\ isActive(obj)
                 THEN [script EXCEPT !.phase = "releasing", !.j = @ + 1]
                 ELSE OffScript
    /\ lastOp' = Op("release", obj, FALSE)
    /\ UNCHANGED <<numGC, numActiveGC, maxStrongPoolSize, poolScalingAlgorithm,
                   collected, held, nextObj>>

\* --------------------------------------------------------- #updatePoolSize
\* Mutant: the do-while stops one object too early.
ShrinkStopsEarly(strong, weak, max) ==
    <<SubSeq(strong, 1, max + 1),
      weak \o [i \in 1..(Len(strong) - max - 1) |-> getWeakRef(strong[Len(strong) + 1 - i])]>>

\* Mutant: the do-while pops the objects without adding their handles to the
\* weak pool.
ShrinkDropsObjects(strong, weak, max) ==
    <<SubSeq(strong, 1, max), weak>>

\* The do-while that moves objects from the top of the strong pool to the
\* weak pool until the strong pool fits the new capacity.
RECURSIVE Shrink(_, _, _)
Shrink(strong, weak, max) ==
    IF max < Len(strong)
    THEN Shrink(SubSeq(strong, 1, Len(strong) - 1),
                SetAdd(weak, getWeakRef(strong[Len(strong)])), max)
    ELSE <<strong, weak>>

\* Mutant: the for-of pushes the objects but leaves their handles in the
\* weak pool.
GrowKeepsHandles(strong, weak, max) ==
    <<strong \o SelectSeq([i \in 1..Len(weak) |-> deref(weak[i])],
                          LAMBDA o : o # undefined),
      weak>>

\* Mutant: the for-of pushes whatever a handle referred to, without testing
\* that the handle still resolves.
RECURSIVE GrowPushesDead(_, _, _)
GrowPushesDead(strong, weak, max) ==
    IF weak = <<>> THEN <<strong, weak>>
    ELSE LET pushed == Append(strong, Head(weak).target)
         IN IF Len(pushed) = max
            THEN <<pushed, Tail(weak)>>
            ELSE GrowPushesDead(pushed, Tail(weak), max)

\* The for-of that visits the weak pool in order, deleting each handle and
\* pushing the ones that resolve, until the strong pool reaches the capacity.
RECURSIVE Grow(_, _, _)
Grow(strong, weak, max) ==
    IF weak = <<>> THEN <<strong, weak>>
    ELSE LET obj == deref(Head(weak))
             pushed == IF obj # undefined THEN Append(strong, obj) ELSE strong
         IN IF obj # undefined /\ Len(pushed) = max
            THEN <<pushed, Tail(weak)>>
            ELSE Grow(pushed, Tail(weak), max)

\* The two tiers after the migration of #updatePoolSize for capacity max.
Migrate(strong, weak, max) ==
    IF max < Len(strong) THEN Shrink(strong, weak, max)
    ELSE IF max > Len(strong) /\ Len(weak) > 0 THEN Grow(strong, weak, max)
    ELSE <<strong, weak>>

\* Mutant: the statistics are passed in the wrong order, the size of the
\* strong pool in the place of the number of active objects.
NewMaxStrongPoolSizeSwapped ==
    PoolScaling(poolScalingAlgorithm, Len(strongPool), maxStrongPoolSize,
                Cardinality(activeObjects), Len(weakPool), numGC)

\* The capacity #updatePoolSize asks the scaling algorithm for.
NewMaxStrongPoolSize ==
    PoolScaling(poolScalingAlgorithm, Cardinality(activeObjects), maxStrongPoolSize,
                Len(strongPool), Len(weakPool), numGC)

\* The timer task queued by release runs.
UpdatePoolSize ==
    /\ timers > 0
    /\ timers' = timers - 1
    /\ maxStrongPoolSize' = NewMaxStrongPoolSize
    /\ strongPool' = Migrate(strongPool, weakPool, NewMaxStrongPoolSize)[1]
    /\ weakPool' = Migrate(strongPool, weakPool, NewMaxStrongPoolSize)[2]
    /\ numGC' = 0
    /\ poolSizeUpdateScheduled' = FALSE
    /\ script' = OffScript
    /\ lastOp' = Op("updatePoolSize", undefined, FALSE)
    /\ UNCHANGED <<activeObjects, numActiveGC, poolScalingAlgorithm, registered,
                   collected, held, nextObj, acquired, foreignReleases>>

\* ------------------------------------------------------------ #objFinalizer
\* Mutant: the counter starts again from 0 when it is full.
SaturatingWraps(n) == IF n = MAX_SAFE_INTEGER THEN 0 ELSE n + 1

\* A saturating increment: the counter stays at Number.MAX_SAFE_INTEGER.
Saturating(n) == IF n = MAX_SAFE_INTEGER THEN n ELSE n + 1

\* The callback's first test, this.#weakPool.delete(weakObj), succeeds.
FinalizerInWeakPool(obj) == getWeakRef(obj) \in Range(weakPool)

\* Mutant: the second test is made even when the first one succeeded.
FinalizerInActiveNoElse(obj) == getWeakRef(obj) \in activeObjects

\* The callback's second test, reached when the first fails:
\* this.#activeObjects.delete(weakObj) succeeds.
FinalizerInActive(obj) ==
    ~FinalizerInWeakPool(obj) /\ getWeakRef(obj) \in activeObjects

\* #numGC after the callback.
FinalizerNumGC(obj) == IF FinalizerInWeakPool(obj) THEN Saturating(numGC) ELSE numGC

\* Mutant: every callback that misses the weak pool is counted as the
\* reclamation of an active object.
FinalizerNumActiveGCCountsAll(obj) ==
    IF ~FinalizerInWeakPool(obj) THEN Saturating(numActiveGC) ELSE numActiveGC

\* #numActiveGC after the callback.
FinalizerNumActiveGC(obj) ==
    IF FinalizerInActive(obj) THEN Saturating(numActiveGC) ELSE numActiveGC

\* The FinalizationRegistry callback runs for the handle of a reclaimed object.
ObjFinalizer(obj) ==
    /\ obj \in collected
    /\ registered[obj] > 0
    /\ registered' = [registered EXCEPT ![obj] = @ - 1]
    /\ weakPool' = SetDelete(weakPool, getWeakRef(obj))
    /\ numGC' = FinalizerNumGC(obj)
    /\ activeObjects' = IF FinalizerInActive(obj)
                        THEN activeObjects \ {getWeakRef(obj)}
                        ELSE activeObjects
    /\ numActiveGC' = FinalizerNumActiveGC(obj)
    /\ script' = OffScript
    /\ lastOp' = Op("finalizer", obj, FALSE)
    /\ UNCHANGED <<strongPool, poolSizeUpdateScheduled, maxStrongPoolSize,
                   poolScalingAlgorithm, timers, collected, held, nextObj, acquired,
                   foreignReleases>>

\* -------------------------------------------------------- numActiveGC getter
\* get numActiveGC() { return this.numActiveGC; }: the body reads the
\* accessor property itself, so every call makes another call, until the host
\* runs out of stack and throws a RangeError.
RECURSIVE numActiveGCGetter(_)
numActiveGCGetter(depth) ==
    IF depth > MaxCallStack
    THEN [threw |-> TRUE, value |-> undefined]
    ELSE numActiveGCGetter(depth + 1)

\* The caller reads pool.numActiveGC.
ReadNumActiveGC ==
    /\ lastOp' = [Op("numActiveGC", numActiveGCGetter(1).value, FALSE)
                     EXCEPT !.threw = numActiveGCGetter(1).threw]
    /\ UNCHANGED <<strongPool, weakPool, activeObjects, poolSizeUpdateScheduled, numGC,
                   numActiveGC, maxStrongPoolSize, poolScalingAlgorithm, timers,
                   registered, collected, held, nextObj, acquired,
                   foreignReleases, script>>

\* ---------------------------------------------------------------- the host
\* What the history records for a step of the host: the pool did not run.
HostOp == [op |-> "host", obj |-> undefined, created |-> FALSE, threw |-> FALSE,
           nStrong |-> 0, nWeak |-> 0]

\* The caller makes an object of its own, without the pool.
CallerCreates ==
    /\ nextObj <= MaxObjs
    /\ held' = held \cup {nextObj}
    /\ nextObj' = nextObj + 1
    /\ script' = OffScript
    /\ lastOp' = HostOp
    /\ UNCHANGED <<strongPool, weakPool, activeObjects, poolSizeUpdateScheduled, numGC,
                   numActiveGC, maxStrongPoolSize, poolScalingAlgorithm, timers,
                   registered, collected, acquired, foreignReleases>>

\* The caller lets go of its last reference to an object.
CallerDrops(obj) ==
    /\ obj \in held
    /\ held' = held \ {obj}
    /\ script' = OffScript
    /\ lastOp' = HostOp
    /\ UNCHANGED <<strongPool, weakPool, activeObjects, poolSizeUpdateScheduled, numGC,
                   numActiveGC, maxStrongPoolSize, poolScalingAlgorithm, timers,
                   registered, collected, nextObj, acquired, foreignReleases>>

\* An object exists and nothing references it strongly: neither the caller
\* nor the strong pool (the weak pool and the active set hold WeakRefs only).
Unreachable(obj) ==
    /\ obj < nextObj
    /\ obj \notin collected
    /\ obj \notin held
    /\ obj \notin Range(strongPool)

\* The collector reclaims an unreachable object; its WeakRef stops resolving
\* and the callbacks registered for it become due.
Collect(obj) ==
    /\ Unreachable(obj)
    /\ collected' = collected \cup {obj}
    /\ script' = OffScript
    /\ lastOp' = HostOp
    /\ UNCHANGED <<strongPool, weakPool, activeObjects, poolSizeUpdateScheduled, numGC,
                   numActiveGC, maxStrongPoolSize, poolScalingAlgorithm, timers,
                   registered, held, nextObj, acquired, foreignReleases>>

\* -------------------------------------------------------------------- Next
Next ==
    \/ Acquire
    \/ \E obj \in Objs : Release(obj)
    \/ UpdatePoolSize
    \/ \E obj \in Objs : ObjFinalizer(obj)
    \/ CallerCreates
    \/ \E obj \in Objs : CallerDrops(obj)
    \/ \E obj \in Objs : Collect(obj)

Spec == Init /\ [][Next]_vars

\* The timer queue is served: a queued #updatePoolSize task eventually runs.
FairSpec == Spec /\ WF_vars(UpdatePoolSize)

\* The same pool, with a caller that also reads the numActiveGC statistic.
NextRead == Next \/ ReadNumActiveGC

SpecRead == Init /\ [][NextRead]_vars

\* ------------------------------------------------------------ an aged pool
\* The values of the two reclamation counters in a pool old enough to have
\* been notified of about Number.MAX_SAFE_INTEGER reclamations.
AgedCounts == {MAX_SAFE_INTEGER - 1, MAX_SAFE_INTEGER}

\* Such a pool at a moment when it is idle and empty: every object of its
\* past has been reclaimed and notified, so nothing but the two counters
\* tells it from a new pool.
InitAged ==
    /\ poolScalingAlgorithm \in Algorithms
    /\ strongPool = <<>>
    /\ weakPool = <<>>
    /\ activeObjects = {}
    /\ poolSizeUpdateScheduled = FALSE
    /\ numGC \in AgedCounts
    /\ numActiveGC = numGC
    /\ maxStrongPoolSize = PoolScaling(poolScalingAlgorithm, 0, 0, 0, 0, 0)
    /\ timers = 0
    /\ registered = [o \in Objs |-> 0]
    /\ collected = {}
    /\ held = {}
    /\ nextObj = 1
    /\ lastOp = NoOp
    /\ acquired = {}
    /\ foreignReleases = 0
    /\ script = OffScript

SpecAged == InitAged /\ [][Next]_vars

\* ------------------------------------------------- a reset that throws
\* Mutant: reset is called after the object has been put in its tier.
ResetThrowsTiersPooled(obj) == <<ReleaseStrong(obj), ReleaseWeak(obj)>>

\* The two tiers when reset throws: the call of reset precedes the capacity
\* test, so neither tier has been touched.
ResetThrowsTiers(obj) == <<strongPool, weakPool>>

\* release(obj) with a reset callback that throws: the exception leaves
\* release after the active-set deletion or the registration, before the
\* object is pooled and before the rescale is queued.
ReleaseResetThrows(obj) ==
    /\ obj \in held
    /\ isActive(obj) \/ foreignReleases < MaxForeignReleases
    /\ activeObjects' = ReleaseActive(obj)
    /\ registered' = IF isActive(obj) THEN registered ELSE Register(registered, obj)
    /\ strongPool' = ResetThrowsTiers(obj)[1]
    /\ weakPool' = ResetThrowsTiers(obj)[2]
    /\ acquired' = acquired \ {obj}
    /\ foreignReleases' = IF isActive(obj) THEN foreignReleases ELSE foreignReleases + 1
    /\ script' = OffScript
    /\ lastOp' = [Op("release", obj, FALSE) EXCEPT !.threw = TRUE]
    /\ UNCHANGED <<poolSizeUpdateScheduled, numGC, numActiveGC, maxStrongPoolSize,
                   poolScalingAlgorithm, timers, collected, held, nextObj>>

\* The pool with a reset callback that may throw.
NextThrow == Next \/ \E obj \in Objs : ReleaseResetThrows(obj)

SpecThrow == Init /\ [][NextThrow]_vars

\* ------------------------------------- a scaling algorithm that throws
\* The timer task runs and the scaling algorithm throws: the exception
\* leaves #updatePoolSize at its first statement, before the capacity is
\* assigned, before any migration, and before #numGC and the
\* #poolSizeUpdateScheduled flag are reset at the end of the function.
UpdatePoolSizeScalingThrows ==
    /\ timers > 0
    /\ timers' = timers - 1
    /\ script' = OffScript
    /\ lastOp' = [Op("updatePoolSize", undefined, FALSE) EXCEPT !.threw = TRUE]
    /\ UNCHANGED <<strongPool, weakPool, activeObjects, poolSizeUpdateScheduled, numGC,
                   numActiveGC, maxStrongPoolSize, poolScalingAlgorithm, registered,
                   collected, held, nextObj, acquired, foreignReleases>>

\* The pool with a scaling algorithm that may throw when the rescale calls it.
NextScalingThrows == Next \/ UpdatePoolSizeScalingThrows

SpecScalingThrows == Init /\ [][NextScalingThrows]_vars

\* ------------------------------------------ direct calls of the algorithm
\* The default scaling algorithm is called on its own, as its tests do before
\* any pool is used, with the five arguments the pool would pass.  The
\* function keeps no state, so one call per run covers every call.
CallDefaultAlgo ==
    /\ poolScalingAlgorithm = <<"default", 0>>
    /\ lastOp.op = "new"
    /\ \E numActive \in 0..MaxNumActiveArg, curMax \in 0..MaxCurMaxArg,
          nStrong \in 0..MaxOtherArg, nWeak \in 0..MaxOtherArg, nGC \in 0..MaxOtherArg :
          lastOp' = [op |-> "defaultPoolScalingAlgo",
                     args |-> <<numActive, curMax, nStrong, nWeak, nGC>>,
                     result |-> PoolScaling(poolScalingAlgorithm, numActive, curMax,
                                            nStrong, nWeak, nGC)]
    /\ UNCHANGED <<strongPool, weakPool, activeObjects, poolSizeUpdateScheduled, numGC,
                   numActiveGC, maxStrongPoolSize, poolScalingAlgorithm, timers,
                   registered, collected, held, nextObj, acquired, foreignReleases,
                   script>>

NextAlgo == Next \/ CallDefaultAlgo

SpecAlgo == Init /\ [][NextAlgo]_vars

\* ================================================================== claims
\* The weak tier holds a handle whose object has not been reclaimed.
LiveHandleInWeakTier == \E i \in 1..Len(weakPool) : weakPool[i].target \notin collected

\* C1: acquire() never invokes the factory while the strong tier is non-empty
\* or the weak tier holds a handle whose object is still live, whatever
\* non-negative capacity the scaling algorithm returns.
C1_FactoryOnlyWhenNothingReusable ==
    [][(lastOp'.op = "acquire" /\ lastOp'.created)
          => (Len(strongPool) = 0 /\ ~LiveHandleInWeakTier)]_vars

\* C2: while callers release only active objects, every object is in at most
\* one of the active set, the strong tier and the weak tier, and the strong
\* tier holds no object twice.
C2_TiersMutuallyExclusive ==
    foreignReleases = 0 =>
        /\ \A obj \in Objs :
              /\ ~(isActive(obj) /\ isStrongPooled(obj))
              /\ ~(isActive(obj) /\ isWeakPooled(obj))
              /\ ~(isStrongPooled(obj) /\ isWeakPooled(obj))
        /\ \A i, j \in 1..Len(strongPool) : strongPool[i] = strongPool[j] => i = j

\* A rescale has just moved an object between the tiers of a disciplined
\* caller's pool, and another object is active.
C2_Witness ==
    /\ foreignReleases = 0
    /\ lastOp.op = "updatePoolSize"
    /\ Len(strongPool) # lastOp.nStrong
    /\ Len(strongPool) + Len(weakPool) > 0
    /\ activeObjects # {}

\* C3: however many releases are made before the host runs a deferred task,
\* one rescale task is queued: never two at once, each release leaves exactly
\* one pending and runs no rescale itself (capacity, numGC and the flag's
\* armed state are as a release leaves them), and the task that runs is the
\* only one there was.
C3_Debounce ==
    /\ [](timers <= 1)
    /\ [][lastOp'.op = "release"
            => /\ timers' = 1
               /\ poolSizeUpdateScheduled'
               /\ maxStrongPoolSize' = maxStrongPoolSize
               /\ numGC' = numGC]_vars
    /\ [][lastOp'.op = "updatePoolSize" => (timers = 1 /\ timers' = 0)]_vars

\* Two releases in a row, no deferred task run yet, one task queued.
C3_Witness ==
    /\ script.phase = "releasing" /\ script.j = 2
    /\ lastOp.op = "release"
    /\ timers = 1

\* C4: with the timer queue served, an armed rescale is never lost (while the
\* flag is set exactly one task is queued), it eventually runs, the run is
\* of an armed rescale and clears the flag and empties the queue, and from
\* then on a release arms a new one.
C4_ArmedRescaleRuns ==
    /\ [](poolSizeUpdateScheduled => timers = 1)
    /\ (poolSizeUpdateScheduled ~> ~poolSizeUpdateScheduled)
    /\ [][lastOp'.op = "updatePoolSize"
            => /\ poolSizeUpdateScheduled
               /\ ~poolSizeUpdateScheduled'
               /\ timers' = 0]_vars
    /\ [][(lastOp'.op = "release" /\ ~poolSizeUpdateScheduled)
            => (poolSizeUpdateScheduled' /\ timers' = 1)]_vars

\* The rescale armed by releases that filled both tiers has just run.
C4_Witness ==
    /\ lastOp.op = "updatePoolSize"
    /\ ~poolSizeUpdateScheduled /\ timers = 0
    /\ lastOp.nStrong > 0 /\ lastOp.nWeak > 0

\* C5 as stated: after k acquires followed by j <= k releases of distinct
\* acquired objects, numActiveObjects = k - j; and numActiveObjects always
\* equals the number of objects acquired and not yet released or reclaimed.
C5_ActiveCountExcludesReclaimed ==
    /\ script.phase \in {"acquiring", "releasing"}
          => numActiveObjects = script.k - script.j
    /\ numActiveObjects = Cardinality(acquired \ collected)

\* C5 amended: after k acquires followed by j <= k releases of distinct
\* acquired objects, numActiveObjects = k - j; and numActiveObjects always
\* equals the number of objects acquired and not yet released, less the
\* reclamations of active objects the pool has been notified of
\* (numActiveGC): a reclaimed object is counted until its notification runs.
C5_ActiveCount ==
    /\ script.phase \in {"acquiring", "releasing"}
          => numActiveObjects = script.k - script.j
    /\ numActiveObjects = Cardinality(acquired) - numActiveGC

\* Two acquires, then one release, one object still active.
C5_Witness ==
    /\ script = [phase |-> "releasing", k |-> 2, j |-> 1]
    /\ lastOp.op = "release"
    /\ numActiveObjects = 1

\* C6: reading numActiveGC completes and yields the active-reclaim counter.
C6_NumActiveGCReadable ==
    lastOp.op = "numActiveGC" => (~lastOp.threw /\ lastOp.obj = numActiveGC)

\* C7: the active-reclaim counter changes only in a finalization callback
\* for a handle that is in the active set when the callback runs, and then
\* by one; acquire, release and rescale leave it alone, so it is 0 until such
\* a callback has run.
C7_ActiveReclaimCounter ==
    /\ [][numActiveGC' # numActiveGC
            => /\ lastOp'.op = "finalizer"
               /\ isActive(lastOp'.obj)
               /\ numActiveGC' = numActiveGC + 1]_vars
    /\ [][lastOp'.op \in {"acquire", "release", "updatePoolSize"}
            => numActiveGC' = numActiveGC]_vars
    /\ [](numActiveGC > 0 => \E obj \in collected : obj \notin held)

\* A callback has just counted the reclamation of an active object.
C7_Witness ==
    /\ lastOp.op = "finalizer"
    /\ numActiveGC = 1
    /\ ~isActive(lastOp.obj)

\* C8: a release called while the strong tier is below its capacity pushes
\* the object on top of the strong tier, which grows by exactly one, and
\* leaves the weak tier as it was.
C8_ReleaseWithRoom ==
    [][(lastOp'.op = "release" /\ numStrongPooledRefs < curMaxStrongPoolSize)
          => /\ Len(strongPool') = Len(strongPool) + 1
             /\ strongPool' = Append(strongPool, lastOp'.obj)
             /\ weakPool' = weakPool]_vars

\* A release has just pushed its object onto a non-empty strong tier that
\* was below its capacity.
C8_Witness ==
    /\ lastOp.op = "release"
    /\ lastOp.nStrong >= 1 /\ lastOp.nStrong < maxStrongPoolSize
    /\ Len(strongPool) = lastOp.nStrong + 1
    /\ strongPool[Len(strongPool)] = lastOp.obj
    /\ Len(weakPool) = lastOp.nWeak

\* After capacity + 1 acquires on a fresh pool and the release of them all,
\* the strong tier holds capacity objects and the weak tier one handle.
OverflowScenario ==
    (/\ script.phase = "releasing"
     /\ script.k = maxStrongPoolSize + 1
     /\ script.j = script.k)
        => (Len(strongPool) = maxStrongPoolSize /\ Len(weakPool) = 1)

\* C9 as stated: a release of an active object called while the strong tier
\* is at or above its capacity leaves the strong tier unchanged and adds the
\* object's handle to the weak tier, which grows by exactly one; and the
\* overflow scenario ends with capacity objects strong and one handle weak.
C9_ReleaseWithoutRoomAlwaysAdds ==
    /\ [][(/\ lastOp'.op = "release"
           /\ numStrongPooledRefs >= curMaxStrongPoolSize
           /\ isActive(lastOp'.obj))
          => /\ strongPool' = strongPool
             /\ weakPool' = Append(weakPool, getWeakRef(lastOp'.obj))
             /\ Len(weakPool') = Len(weakPool) + 1]_vars
    /\ []OverflowScenario

\* C9 amended: the same, for an active object whose handle is not already
\* in the weak tier, which is every active object while callers have released
\* only active objects; if the handle is already there the weak tier is
\* unchanged too.
C9_ReleaseWithoutRoom ==
    /\ [][(/\ lastOp'.op = "release"
           /\ numStrongPooledRefs >= curMaxStrongPoolSize
           /\ isActive(lastOp'.obj))
          => /\ strongPool' = strongPool
             /\ IF isWeakPooled(lastOp'.obj)
                THEN weakPool' = weakPool
                ELSE /\ weakPool' = Append(weakPool, getWeakRef(lastOp'.obj))
                     /\ Len(weakPool') = Len(weakPool) + 1]_vars
    /\ [](foreignReleases = 0
            => \A obj \in Objs : ~(isActive(obj) /\ isWeakPooled(obj)))
    /\ []OverflowScenario

\* Two objects acquired from a fresh pool of capacity one and both released.
C9_Witness ==
    /\ script = [phase |-> "releasing", k |-> 2, j |-> 2]
    /\ maxStrongPoolSize = 1
    /\ lastOp.op = "release"
    /\ Len(strongPool) = lastOp.nStrong /\ Len(weakPool) = lastOp.nWeak + 1

\* The index of the first weak-tier handle that still resolves.
FirstLiveHandle ==
    CHOOSE i \in 1..Len(weakPool) :
        /\ weakPool[i].target \notin collected
        /\ \A j \in 1..(i - 1) : weakPool[j].target \in collected

\* What every backfilling acquire does: it returns the popped top of the
\* strong tier without calling the factory, pushes the object of the first
\* live handle in its place (so the strong tier keeps its size), removes that
\* handle and every dead handle before it from the weak tier and leaves the
\* later handles as they were.
BackfillEffect ==
    /\ ~lastOp'.created
    /\ lastOp'.obj = strongPool[Len(strongPool)]
    /\ Len(strongPool') = Len(strongPool)
    /\ strongPool' = Append(SubSeq(strongPool, 1, Len(strongPool) - 1),
                            weakPool[FirstLiveHandle].target)
    /\ weakPool' = SubSeq(weakPool, FirstLiveHandle + 1, Len(weakPool))

\* C10 as stated: an acquire called with a non-empty strong tier and a live
\* handle in the weak tier migrates exactly one live object from the weak to
\* the strong tier as above, and the object it returns is the popped one and
\* not the promoted one.
C10_ReturnedNeverThePromoted ==
    [][(lastOp'.op = "acquire" /\ Len(strongPool) > 0 /\ LiveHandleInWeakTier)
          => /\ BackfillEffect
             /\ lastOp'.obj # weakPool[FirstLiveHandle].target]_vars

\* C10 amended: the same migration, and the object returned is the popped
\* one; it differs from the promoted one while callers have released only
\* active objects (after a double release one object can be both).
C10_AcquireBackfill ==
    [][(lastOp'.op = "acquire" /\ Len(strongPool) > 0 /\ LiveHandleInWeakTier)
          => /\ BackfillEffect
             /\ foreignReleases = 0
                  => lastOp'.obj # weakPool[FirstLiveHandle].target]_vars

\* An acquire of a disciplined caller has just returned the popped object,
\* promoted another one from the weak tier and kept the size of the strong
\* tier.
C10_Witness ==
    /\ foreignReleases = 0
    /\ lastOp.op = "acquire" /\ ~lastOp.created
    /\ lastOp.nStrong > 0 /\ Len(strongPool) = lastOp.nStrong
    /\ Len(weakPool) = lastOp.nWeak - 1
    /\ strongPool[Len(strongPool)] # lastOp.obj
    /\ isActive(lastOp.obj)

\* C11: the capacity changes only in a step that runs #updatePoolSize:
\* acquire, release and the finalization callback leave it as it was, so a
\* release that queues the rescale still shows the capacity it found.  At
\* construction the capacity is the algorithm's answer to (0, 0, 0, 0, 0),
\* which is 5 for the default algorithm.
C11_CapacityOnlyRescaled ==
    /\ [][/\ maxStrongPoolSize' # maxStrongPoolSize => lastOp'.op = "updatePoolSize"
          /\ lastOp'.op \in {"acquire", "release", "finalizer"}
                => maxStrongPoolSize' = maxStrongPoolSize]_vars
    /\ [](lastOp.op = "new" =>
            /\ curMaxStrongPoolSize = PoolScaling(poolScalingAlgorithm, 0, 0, 0, 0, 0)
            /\ poolScalingAlgorithm[1] = "default" => curMaxStrongPoolSize = 5)

\* A release has queued the rescale and the capacity is still the one the
\* release found, although the algorithm would now answer differently.
C11_Witness ==
    /\ lastOp.op = "release"
    /\ poolSizeUpdateScheduled /\ timers = 1
    /\ NewMaxStrongPoolSize # curMaxStrongPoolSize

\* The objects the handles of w still resolve to, in the order of w.
LiveTargets(w) ==
    SelectSeq([i \in 1..Len(w) |-> deref(w[i])], LAMBDA o : o # undefined)

PoppedHandles(s, n) ==
    [i \in 1..(Len(s) - n) |-> getWeakRef(s[Len(s) + 1 - i])]

\* The objects the pool keeps in tiers s and w, reclaimed or not.
Pooled(s, w) == Range(s) \cup {w[i].target : i \in 1..Len(w)}

\* C13: a rescale whose new capacity is below the size of the strong tier
\* pops objects from the top of the strong tier and adds the handle of each
\* to the weak tier until the strong tier has exactly newMax objects: the
\* oldest newMax objects stay, in their order, the weak tier keeps what it
\* had and gains exactly the popped objects (each once; in the order they
\* were popped when they are distinct and new to the weak tier), and no
\* object leaves the pool.
C13_RescaleShrink ==
    [][(/\ lastOp'.op = "updatePoolSize"
        /\ maxStrongPoolSize' < Len(strongPool))
       => LET popped == PoppedHandles(strongPool, maxStrongPoolSize')
              gained == SubSeq(weakPool', Len(weakPool) + 1, Len(weakPool'))
          IN /\ maxStrongPoolSize' >= 0
             /\ Len(strongPool') = maxStrongPoolSize'
             /\ strongPool' = SubSeq(strongPool, 1, maxStrongPoolSize')
             /\ SubSeq(weakPool', 1, Len(weakPool)) = weakPool
             /\ Range(weakPool') = Range(weakPool) \cup Range(popped)
             /\ Cardinality(Range(gained)) = Len(gained)
             /\ (/\ Cardinality(Range(popped)) = Len(popped)
                 /\ Range(popped) \cap Range(weakPool) = {}) => gained = popped
             /\ Pooled(strongPool', weakPool') = Pooled(strongPool, weakPool)]_vars

\* A rescale has just demoted objects: the strong tier shrank to the new
\* capacity and the weak tier grew.
C13_Witness ==
    /\ lastOp.op = "updatePoolSize"
    /\ Len(strongPool) < lastOp.nStrong
    /\ Len(strongPool) = curMaxStrongPoolSize
    /\ Len(weakPool) = lastOp.nWeak + (lastOp.nStrong - Len(strongPool))

\* The least integer not below n / 5.
CeilOfFifth(n) == CHOOSE c \in 0..n : 5 * c >= n /\ (c = 0 \/ 5 * (c - 1) < n)

\* The value the default scaling algorithm is documented to return.
DocumentedScaling(numActive, curMax) ==
    IF numActive = 0 THEN 5
    ELSE IF 10 * curMax < numActive \/ 2 * curMax > numActive
         THEN IF CeilOfFifth(numActive) > 5 THEN CeilOfFifth(numActive) ELSE 5
         ELSE IF curMax > 5 THEN curMax ELSE 5

\* C14: for every numActive and curMax of the range, whatever the last three
\* arguments, a call of the default scaling algorithm returns 5 when nothing
\* is active, max(ceil(numActive * 0.2), 5) when curMax / numActive is below
\* 0.1 or above 0.5, and max(curMax, 5) otherwise, a ratio of exactly 0.1 or
\* 0.5 being inside the band; f(1,5) = 5, f(100,9) = 20, f(100,51) = 20,
\* f(100,p) = p for 10 <= p <= 50 and f(100,p) # p for the other p of 1..59.
C14_DefaultScaling ==
    lastOp.op = "defaultPoolScalingAlgo" =>
        LET numActive == lastOp.args[1]
            curMax == lastOp.args[2]
            f == lastOp.result
        IN /\ f = DocumentedScaling(numActive, curMax)
           /\ (numActive > 0 /\ (10 * curMax = numActive \/ 2 * curMax = numActive))
                 => f = (IF curMax > 5 THEN curMax ELSE 5)
           /\ (numActive = 1 /\ curMax = 5) => f = 5
           /\ (numActive = 100 /\ curMax = 9) => f = 20
           /\ (numActive = 100 /\ curMax = 51) => f = 20
           /\ (numActive = 100 /\ curMax \in 10..50) => f = curMax
           /\ (numActive = 100 /\ curMax \in (1..59) \ (10..50)) => f # curMax

\* The algorithm has been called on the upper edge of the band, with further
\* arguments that are not all zero, and kept the capacity.
C14_Witness ==
    /\ lastOp.op = "defaultPoolScalingAlgo"
    /\ lastOp.args = <<100, 50, 1, 0, 1>>
    /\ lastOp.result = 50

\* C15: the default scaling algorithm never returns less than 5, so a pool
\* that uses it has a capacity of at least 5 in every state, at construction
\* and after every rescale.
C15_DefaultCapacityAtLeastFive ==
    /\ lastOp.op = "defaultPoolScalingAlgo" => lastOp.result >= 5
    /\ poolScalingAlgorithm[1] = "default" => curMaxStrongPoolSize >= 5

\* A pool with the default algorithm has just rescaled while objects were
\* active and others pooled.
C15_Witness ==
    /\ poolScalingAlgorithm[1] = "default"
    /\ lastOp.op = "updatePoolSize"
    /\ numActiveObjects > 0
    /\ numStrongPooledRefs > 0
    /\ curMaxStrongPoolSize = 5

\* C16: a release of an object that is not active (never acquired from the
\* pool, or released already) is accepted without an error: it registers the
\* object with the finalization registry, leaves the active set alone, puts
\* the object on the strong tier when that has room and its handle in the
\* weak tier otherwise, and leaves one rescale queued.  A second release of
\* the same object is such a release, so an object can end up in both tiers
\* or twice in the strong tier.
C16_ReleaseOfInactive ==
    [][(lastOp'.op = "release" /\ ~isActive(lastOp'.obj))
       => LET obj == lastOp'.obj
          IN /\ ~lastOp'.threw
             /\ registered'[obj] = registered[obj] + 1
             /\ activeObjects' = activeObjects
             /\ IF numStrongPooledRefs < curMaxStrongPoolSize
                THEN /\ strongPool' = Append(strongPool, obj)
                     /\ weakPool' = weakPool
                ELSE /\ strongPool' = strongPool
                     /\ Range(weakPool') = Range(weakPool) \cup {getWeakRef(obj)}
                     /\ SubSeq(weakPool', 1, Len(weakPool)) = weakPool
             /\ poolSizeUpdateScheduled' /\ timers' = 1]_vars

\* An object has just been released for the second time without an acquire
\* in between and is now twice in the strong tier.
C16_Witness ==
    /\ lastOp.op = "release"
    /\ foreignReleases = 1
    /\ registered[lastOp.obj] = 2
    /\ \E i, j \in 1..Len(strongPool) :
          i < j /\ strongPool[i] = lastOp.obj /\ strongPool[j] = lastOp.obj

\* C18: a step that runs the rescale ends with the capacity the scaling
\* algorithm returns for the statistics of the state the step starts from
\* (active count, capacity, strong size, weak size, numGC), with numGC at 0
\* and the rescale flag cleared; if that capacity equals the size of the
\* strong tier, or exceeds it while the weak tier is empty, both tiers stay
\* as they are.
C18_RescaleResult ==
    [][lastOp'.op = "updatePoolSize"
       => /\ curMaxStrongPoolSize' =
                PoolScaling(poolScalingAlgorithm, numActiveObjects,
                            curMaxStrongPoolSize, numStrongPooledRefs,
                            numWeakPooledRefs, numGC)
          /\ numGC' = 0
          /\ ~poolSizeUpdateScheduled'
          /\ (\/ curMaxStrongPoolSize' = numStrongPooledRefs
              \/ (curMaxStrongPoolSize' > numStrongPooledRefs /\ weakPool = <<>>))
                => strongPool' = strongPool /\ weakPool' = weakPool]_vars

\* A rescale of a pool whose capacity follows the active count has just run
\* after every object was released: the capacity is the active count of that
\* moment, 0, not the count at an earlier release, and the tiers are as the
\* rescale found them.
C18_Witness ==
    /\ lastOp.op = "updatePoolSize"
    /\ poolScalingAlgorithm[1] = "active"
    /\ activeObjects = {} /\ curMaxStrongPoolSize = 0
    /\ numGC = 0 /\ ~poolSizeUpdateScheduled /\ timers = 0
    /\ lastOp.nStrong = 0 /\ lastOp.nWeak = MaxObjs
    /\ strongPool = <<>> /\ Len(weakPool) = MaxObjs

\* C19: a finalization callback for a handle does exactly one of three
\* things.  (a) The handle is in the weak tier: it is removed and numGC grows
\* by 1, the active set and numActiveGC staying as they are.  (b) Otherwise,
\* the handle is in the active set: it is removed and numActiveGC grows by 1,
\* numGC and the weak tier staying as they are.  (c) Otherwise nothing
\* changes.  The strong tier, the capacity, the rescale flag and the timer
\* queue are never touched.
C19_FinalizerFrame ==
    [][lastOp'.op = "finalizer"
       => LET weakObj == getWeakRef(lastOp'.obj)
          IN /\ IF weakObj \in Range(weakPool)
                THEN /\ weakPool' = SelectSeq(weakPool, LAMBDA h : h # weakObj)
                     /\ numGC' = numGC + 1
                     /\ activeObjects' = activeObjects
                     /\ numActiveGC' = numActiveGC
                ELSE IF weakObj \in activeObjects
                THEN /\ activeObjects' = activeObjects \ {weakObj}
                     /\ numActiveGC' = numActiveGC + 1
                     /\ numGC' = numGC
                     /\ weakPool' = weakPool
                ELSE /\ weakPool' = weakPool /\ activeObjects' = activeObjects
                     /\ numGC' = numGC /\ numActiveGC' = numActiveGC
             /\ strongPool' = strongPool
             /\ maxStrongPoolSize' = maxStrongPoolSize
             /\ poolSizeUpdateScheduled' = poolSizeUpdateScheduled
             /\ timers' = timers]_vars

\* A callback has just removed from the weak tier a handle that was also in
\* the active set, and has counted it once, as a weak reclamation.
C19_Witness ==
    /\ lastOp.op = "finalizer"
    /\ Len(weakPool) = lastOp.nWeak - 1
    /\ isActive(lastOp.obj)
    /\ numGC >= 1

\* C17: when reset throws inside release(obj) the exception reaches the
\* caller and the pool is left as it was just before reset was called: the
\* handle of obj is out of the active set if it was there, obj has one more
\* registration if it was not, and the strong tier, the weak tier, the
\* capacity, the two counters, the rescale flag and the timer queue have
\* their values of before the call, so obj is put in no tier and no rescale
\* is queued by the call.
C17_ResetThrows ==
    [][(lastOp'.op = "release" /\ lastOp'.threw)
       => LET obj == lastOp'.obj
          IN /\ strongPool' = strongPool /\ weakPool' = weakPool
             /\ maxStrongPoolSize' = maxStrongPoolSize
             /\ numGC' = numGC /\ numActiveGC' = numActiveGC
             /\ poolSizeUpdateScheduled' = poolSizeUpdateScheduled
             /\ timers' = timers
             /\ activeObjects' = activeObjects \ {getWeakRef(obj)}
             /\ registered' = IF isActive(obj) THEN registered
                              ELSE [registered EXCEPT ![obj] = @ + 1]]_vars

\* The release of an active object has just failed in reset: the object is
\* no longer active, is in neither tier, and no rescale is queued.
C17_Witness ==
    /\ lastOp.op = "release" /\ lastOp.threw
    /\ foreignReleases = 0
    /\ registered[lastOp.obj] = 1
    /\ ~isActive(lastOp.obj)
    /\ ~isStrongPooled(lastOp.obj) /\ ~isWeakPooled(lastOp.obj)
    /\ ~poolSizeUpdateScheduled /\ timers = 0

\* C20: numGC and numActiveGC never exceed MAX_SAFE_INTEGER.  A callback
\* that finds its handle in the weak tier while numGC is at the maximum, or
\* in the active set while numActiveGC is at the maximum, still removes the
\* handle and leaves the counter at the maximum.  numActiveGC never
\* decreases, and numGC decreases only in a rescale, which sets it to 0.
C20_CountersSaturate ==
    /\ [](/\ numGC \in 0..MAX_SAFE_INTEGER
          /\ numActiveGC \in 0..MAX_SAFE_INTEGER)
    /\ [][lastOp'.op = "finalizer"
          => LET weakObj == getWeakRef(lastOp'.obj)
             IN /\ (weakObj \in Range(weakPool) /\ numGC = MAX_SAFE_INTEGER)
                     => /\ weakObj \notin Range(weakPool')
                        /\ numGC' = MAX_SAFE_INTEGER
                /\ (/\ weakObj \notin Range(weakPool)
                    /\ weakObj \in activeObjects
                    /\ numActiveGC = MAX_SAFE_INTEGER)
                     => /\ weakObj \notin activeObjects'
                        /\ numActiveGC' = MAX_SAFE_INTEGER]_vars
    /\ [][numActiveGC' >= numActiveGC]_vars
    /\ [][numGC' < numGC => lastOp'.op = "updatePoolSize" /\ numGC' = 0]_vars

\* A callback has just removed a handle from the weak tier while numGC was
\* full.  No object was ever reclaimed while active (every acquired object
\* was released), so numActiveGC has kept the value the run started with,
\* the maximum, and numGC, which started equal to it and is still there, was
\* at the maximum when the callback arrived.
C20_Witness ==
    /\ lastOp.op = "finalizer"
    /\ Len(weakPool) = lastOp.nWeak - 1
    /\ numGC = MAX_SAFE_INTEGER
    /\ numActiveGC = MAX_SAFE_INTEGER
    /\ acquired = {} /\ foreignReleases = 0

\* C21: as long as the caller has released active objects only, an object
\* is registered with the finalization registry once: by the acquire that
\* creates it, which registers an object that was never registered before,
\* and by no other step (release, acquire from the strong tier, rescale).
\* So at most one callback is owed for an object, a callback leaves none
\* owed, and a callback counts at most one reclamation.
C21_RegisteredOnce ==
    /\ [](foreignReleases = 0 =>
            \A o \in Objs : /\ registered[o] <= 1
                            /\ o >= nextObj => registered[o] = 0)
    /\ [][foreignReleases' = 0 =>
            \A o \in Objs :
               /\ registered'[o] > registered[o]
                    => /\ lastOp'.op = "acquire" /\ lastOp'.created
                       /\ lastOp'.obj = o /\ o = nextObj
               /\ registered'[o] < registered[o]
                    => /\ lastOp'.op = "finalizer" /\ lastOp'.obj = o
                       /\ o \in collected /\ registered'[o] = 0
                       /\ (numGC' + numActiveGC') - (numGC + numActiveGC) \in {0, 1}]_vars

\* The callback of an object has just run: the object had been created by
\* acquire, released into the weak tier and reclaimed there; it is counted
\* once and no further callback is owed for it.
C21_Witness ==
    /\ foreignReleases = 0
    /\ lastOp.op = "finalizer"
    /\ registered[lastOp.obj] = 0
    /\ Len(weakPool) = lastOp.nWeak - 1
    /\ numGC = 1 /\ numActiveGC = 0

\* Sequence s without its last element.
Front(s) == SubSeq(s, 1, Len(s) - 1)

\* Sequence p is an initial part of sequence s.
IsPrefix(p, s) == Len(p) <= Len(s) /\ SubSeq(s, 1, Len(p)) = p

\* C22: the strong tier is a stack.  An acquire that finds it non-empty
\* returns its top and removes it, the backfill putting at most one object
\* in its place; a release with room puts its object on the top; a rescale
\* only adds objects above the top or removes them from the top; no other
\* step changes the strong tier.  So with two objects a then b on the strong
\* tier and an empty weak tier, an acquire returns b and leaves a on the
\* top for the next acquire.
C22_StrongTierIsStack ==
    [][/\ (lastOp'.op = "acquire" /\ numStrongPooledRefs > 0)
            => /\ lastOp'.obj = strongPool[Len(strongPool)]
               /\ ~lastOp'.created
               /\ \/ strongPool' = Front(strongPool)
                  \/ /\ Front(strongPool') = Front(strongPool)
                     /\ getWeakRef(strongPool'[Len(strongPool')]) \in Range(weakPool)
               /\ weakPool = <<>> => strongPool' = Front(strongPool)
       /\ lastOp'.op = "release"
            => \/ strongPool' = Append(strongPool, lastOp'.obj)
               \/ strongPool' = strongPool
       /\ lastOp'.op = "updatePoolSize"
            => IsPrefix(strongPool, strongPool') \/ IsPrefix(strongPool', strongPool)
       /\ lastOp'.op \notin {"acquire", "release", "updatePoolSize"}
            => strongPool' = strongPool]_vars

\* Objects 1 and 2 were released in that order into the strong tier; an
\* acquire has just returned 2, the later one, and left 1 on the top.
C22_Witness ==
    /\ foreignReleases = 0
    /\ lastOp.op = "acquire" /\ ~lastOp.created
    /\ lastOp.obj = 2 /\ lastOp.nStrong = 2 /\ lastOp.nWeak = 0
    /\ strongPool = <<1>>
    /\ activeObjects = {getWeakRef(2)}

\* C23: whatever non-negative integers the scaling algorithm returns, the
\* strong tier never holds more objects than the capacity, in any state
\* between two operations: not after a release before the rescale it
\* queued has run, nor after an acquire, a rescale or a callback.
C23_StrongWithinCapacity == numStrongPooledRefs <= curMaxStrongPoolSize

\* A rescale has just lowered the capacity below the size the strong tier
\* had, and the strong tier has been cut down to it.
C23_Witness ==
    /\ lastOp.op = "updatePoolSize"
    /\ lastOp.nStrong > curMaxStrongPoolSize
    /\ numStrongPooledRefs = curMaxStrongPoolSize

\* C24: as long as the caller has released active objects only, acquire
\* never returns an object that is active when acquire is called, whatever
\* acquires, releases, rescales and callbacks came before; no active object
\* sits in a tier from which it could be handed out again.
C24_NeverHandedOutTwice ==
    /\ [][(foreignReleases' = 0 /\ lastOp'.op = "acquire")
            => ~isActive(lastOp'.obj)]_vars
    /\ [](foreignReleases = 0 =>
            \A o \in Objs : isActive(o) => ~isStrongPooled(o) /\ ~isWeakPooled(o))

\* An acquire has just handed out again an object that had been released,
\* while another object is active too: the two holders have different
\* objects.
C24_Witness ==
    /\ foreignReleases = 0
    /\ lastOp.op = "acquire" /\ ~lastOp.created
    /\ isActive(lastOp.obj)
    /\ numActiveObjects = 2
    /\ ~isStrongPooled(lastOp.obj) /\ ~isWeakPooled(lastOp.obj)

\* C25: as long as the caller has released active objects only (and no
\* callback has thrown), no live object is lost: an object made by the
\* factory, which is one with a callback owed, and not reclaimed is active,
\* on the strong tier or referenced from the weak tier.  A handle that the
\* backfill scan of acquire or a rescale takes out of the weak tier either
\* no longer resolves or has its object on the strong tier afterwards.
C25_NoLiveObjectLost ==
    /\ [](foreignReleases = 0 =>
            \A o \in Objs :
               (registered[o] > 0 /\ o \notin collected)
                  => isActive(o) \/ isStrongPooled(o) \/ isWeakPooled(o))
    /\ [][(foreignReleases' = 0 /\ lastOp'.op \in {"acquire", "updatePoolSize"})
            => \A h \in Range(weakPool) \ Range(weakPool') :
                  deref(h) = undefined \/ h.target \in Range(strongPool')]_vars

\* An acquire has just returned the top of the strong tier; its scan threw
\* away the handle of a reclaimed object, promoted nothing, and every live
\* object of the factory is still accounted for.
C25_Witness ==
    /\ foreignReleases = 0
    /\ lastOp.op = "acquire" /\ ~lastOp.created
    /\ Len(weakPool) < lastOp.nWeak
    /\ Len(strongPool) = lastOp.nStrong - 1
    /\ collected # {}
    /\ \A o \in Objs : (registered[o] > 0 /\ o \notin collected)
                           => isActive(o) \/ isStrongPooled(o) \/ isWeakPooled(o)

\* C26: the rescale flag and the timer queue agree in every state: the flag
\* is set exactly when one rescale task is queued, and it is never set with
\* no task queued, also after a rescale in which the scaling algorithm
\* threw.
C26_FlagAgreesWithQueue ==
    /\ timers \in {0, 1}
    /\ poolSizeUpdateScheduled <=> timers = 1
====
